---- MODULE Spec2Model ----
(***************************************************************************)
(* Verification model of the advent crate.                                 *)
(*   lib/bitset.rs      the fixed-capacity BitSet (n, bytes) with          *)
(*                      new / get / set / unset / len / min; bytes are u8  *)
(*                      values 0..255 and every bit operation is computed  *)
(*                      arithmetically within 8 bits                       *)
(*   lib/coordinate.rs  the XY point with north / south / west / east      *)
(*   bin/day23.rs       the Ring of labels and crab_step                   *)
(*   bin/day0.rs        the PuzzleBuilder                                  *)
(* Each component has its own variables and its own specification; the     *)
(* variables of the other components stay at their idle values.            *)
(***************************************************************************)
EXTENDS Integers, Sequences, FiniteSets, TLC

\* ------------------------------------------------------------------ bounds
\* Spec: every capacity up to MaxCap, every index up to MaxIndex.
MaxCap == 8
MaxIndex == 16
\* SpecWide: every capacity up to MaxWideCap (reaches new(16), new(17));
\* the caller passes the indices up to MaxWideIndex that lie at a byte
\* boundary (first, second and last bit of a byte).
MaxWideCap == 17
MaxWideIndex == 24

\* SpecXY: usize::MAX of the model (usize arithmetic is done within
\* 0..MaxUsize, so that x + 1 and y + 1 reach the end of the type).
MaxUsize == 5

\* SpecPB: the lines given to PuzzleBuilder::add are boundary lines of up
\* to MaxWidth dashes, interior lines of up to MaxWidth cells and a fixed
\* list of malformed lines; interior lines are added while the builder has
\* fewer than MaxHeight rows.
MaxWidth == 2
MaxHeight == 2

\* SpecEscape: escape runs on every puzzle of at most MaxCells cells.
MaxCells == 9

\* SpecRing: ring labels are 0..MaxLabel; Ring::new is given up to
\* MaxItems items (enough for every label and a duplicate) and
\* remove_after_point is asked for up to MaxRemove (more than any ring holds).
MaxLabel == 3
MaxItems == MaxLabel + 2
MaxRemove == MaxLabel + 2

Labels == 0..MaxLabel

Capacities == 0..MaxCap
Indices == 0..MaxIndex
WideCapacities == 0..MaxWideCap
WideIndices == {i \in 0..MaxWideIndex : i % 8 \in {0, 1, 7}}

\* ------------------------------------------------------------------ state
VARIABLES
    n,      \* BitSet.n: the capacity
    bytes,  \* BitSet.bytes: Box<[u8]>, a sequence of values in 0..255
    op,     \* the last call made on the bitset
    arg,    \* the index argument of the last call (0 when it takes none)
    ret,    \* the value the last call returned
    xy,     \* coordinate.rs: the XY value the caller holds
    xyOp,   \* the last XY method called
    xyRet,  \* the value that call returned
    nodes,  \* day23.rs Ring.nodes: BTreeMap<u32, RingNode>
    point,  \* day23.rs Ring.point
    ringOp, \* the last Ring call, with its arguments
    ringRet,\* the value that call returned
    ringWasOk, \* whether the ring satisfied its invariant before that call
    builder,\* day0.rs: the PuzzleBuilder value the caller holds
    pbOp,   \* the last PuzzleBuilder call: <<"new">>, <<"build">> or
            \* <<"add", state of the builder before the call, what PAT_OUTER
            \* captured in the line>>
    pbRet,  \* what build returned, None before build is called
    puzzle, \* day0.rs: the Puzzle on which escape runs
    visited,\* escape: BTreeMap<XY, String>
    to_visit, \* escape: VecDeque<(XY, String)>
    escRet  \* what escape returned, None while its loop runs

bitsetVars == <<n, bytes, op, arg, ret>>
xyVars == <<xy, xyOp, xyRet>>
ringVars == <<nodes, point, ringOp, ringRet, ringWasOk>>
pbVars == <<builder, pbOp, pbRet>>
escVars == <<puzzle, visited, to_visit, escRet>>

vars == <<bitsetVars, xyVars, ringVars, pbVars, escVars>>

\* Option<T> and plain usize return values.
None == [kind |-> "None"]
Some(v) == [kind |-> "Some", val |-> v]
Usize(v) == [kind |-> "usize", val |-> v]
Constructed == [kind |-> "BitSet"]
\* The call did not return: the thread panicked.
Panic == [kind |-> "panic"]
\* Result<T, String>; a formatted message is the tuple of its parts.
Ok(v) == [kind |-> "Ok", val |-> v]
Err(msg) == [kind |-> "Err", msg |-> msg]

\* ------------------------------------------------------------ u8 arithmetic
RECURSIVE Pow2(_)
Pow2(k) == IF k = 0 THEN 1 ELSE 2 * Pow2(k - 1)

\* byte << k on u8 (bits shifted out are lost)
shl8(byte, k) == (byte * Pow2(k)) % 256

\* byte >> k on u8
shr8(byte, k) == byte \div Pow2(k)

RECURSIVE leading_ones(_)
leading_ones(byte) ==
    IF byte >= 128 THEN 1 + leading_ones(shl8(byte, 1)) ELSE 0

RECURSIVE leading_zeros(_)
leading_zeros(byte) ==
    IF byte = 0 THEN 8
    ELSE IF byte >= 128 THEN 0
    ELSE 1 + leading_zeros(shl8(byte, 1))

RECURSIVE count_ones(_)
count_ones(byte) ==
    IF byte = 0 THEN 0 ELSE (byte % 2) + count_ones(byte \div 2)

\* a | b on u8
RECURSIVE BitOr(_, _)
BitOr(a, b) ==
    IF a = 0 /\ b = 0 THEN 0
    ELSE (IF a % 2 = 1 \/ b % 2 = 1 THEN 1 ELSE 0)
         + 2 * BitOr(a \div 2, b \div 2)

\* a & b on u8
RECURSIVE BitAnd(_, _)
BitAnd(a, b) ==
    IF a = 0 \/ b = 0 THEN 0
    ELSE (IF a % 2 = 1 /\ b % 2 = 1 THEN 1 ELSE 0)
         + 2 * BitAnd(a \div 2, b \div 2)

\* a ^ b on u8
RECURSIVE BitXor(_, _)
BitXor(a, b) ==
    IF a = 0 /\ b = 0 THEN 0
    ELSE (IF a % 2 # b % 2 THEN 1 ELSE 0)
         + 2 * BitXor(a \div 2, b \div 2)

\* vec![v; k]
Repeat(v, k) == [i \in 1..k |-> v]

\* ------------------------------------------------------------------ BitSet
\* bit_at reading from the least significant end: (byte >> idx) & 1
bit_at_lsb(byte, idx) == shr8(byte, idx) % 2 = 1

\* fn bit_at(byte: u8, idx: usize) -> bool
bit_at(byte, idx) == leading_ones(shl8(byte, idx)) > 0

\* BitSet::new with the n % 8 == 0 arm dropped.
new_always_extra(cap) ==
    [n |-> cap, bytes |-> Repeat(0, (cap \div 8) + 1)]

\* BitSet::new filling the buffer with the capacity instead of 0.
new_filled(cap) ==
    [n |-> cap,
     bytes |-> IF cap % 8 = 0 THEN Repeat(cap % 256, cap \div 8)
               ELSE Repeat(cap % 256, (cap \div 8) + 1)]

\* pub fn new(n: usize) -> BitSet
new(cap) ==
    [n |-> cap,
     bytes |-> IF cap % 8 = 0 THEN Repeat(0, cap \div 8)
               ELSE Repeat(0, (cap \div 8) + 1)]

\* pub fn get(&self, bit: usize) -> Option<bool>
get(self, bit) ==
    IF bit < self.n
    THEN LET byte_idx == bit \div 8
             bit_idx == bit % 8
         IN IF byte_idx < Len(self.bytes)
            THEN Some(bit_at(self.bytes[byte_idx + 1], bit_idx))
            ELSE None
    ELSE None

\* *prev_byte = 0x80 >> bit_idx (assignment in place of |=)
set_byte_assign(prev_byte, bit_idx) == shr8(128, bit_idx)

\* *prev_byte ^= 0x80 >> bit_idx (toggle in place of |=)
set_byte_toggle(prev_byte, bit_idx) == BitXor(prev_byte, shr8(128, bit_idx))

\* *prev_byte |= 0x01 << bit_idx (least-significant-bit-first mask)
set_byte_lsb(prev_byte, bit_idx) == BitOr(prev_byte, shl8(1, bit_idx))

\* *prev_byte |= 0x80 >> bit_idx
set_byte(prev_byte, bit_idx) == BitOr(prev_byte, shr8(128, bit_idx))

\* *prev_byte &= 0x80 >> bit_idx (the mask not complemented)
unset_byte_no_complement(prev_byte, bit_idx) ==
    BitAnd(prev_byte, shr8(128, bit_idx))

\* *prev_byte &= 0xff - (0x80 >> bit_idx)
unset_byte(prev_byte, bit_idx) == BitAnd(prev_byte, 255 - shr8(128, bit_idx))

\* set whose range check is made against the storage (8 * bytes.len()),
\* not against n.
set_storage_checked(self, bit) ==
    IF bit < 8 * Len(self.bytes)
    THEN LET byte_idx == bit \div 8
             bit_idx == bit % 8
         IN [self |-> [self EXCEPT !.bytes[byte_idx + 1] = set_byte(@, bit_idx)],
             ret |-> Some(bit_at(self.bytes[byte_idx + 1], bit_idx))]
    ELSE [self |-> self, ret |-> None]

\* set that reads prev_bit after the |=.
set_returns_new(self, bit) ==
    IF bit < self.n
    THEN LET byte_idx == bit \div 8
             bit_idx == bit % 8
         IN IF byte_idx < Len(self.bytes)
            THEN LET new_byte == set_byte(self.bytes[byte_idx + 1], bit_idx)
                 IN [self |-> [self EXCEPT !.bytes[byte_idx + 1] = new_byte],
                     ret |-> Some(bit_at(new_byte, bit_idx))]
            ELSE [self |-> self, ret |-> None]
    ELSE [self |-> self, ret |-> None]

\* pub fn set(&mut self, bit: usize) -> Option<bool>
\* The result pairs the bitset after the call with the returned value.
set(self, bit) ==
    IF bit < self.n
    THEN LET byte_idx == bit \div 8
             bit_idx == bit % 8
         IN IF byte_idx < Len(self.bytes)
            THEN [self |-> [self EXCEPT !.bytes[byte_idx + 1] = set_byte(@, bit_idx)],
                  ret |-> Some(bit_at(self.bytes[byte_idx + 1], bit_idx))]
            ELSE [self |-> self, ret |-> None]
    ELSE [self |-> self, ret |-> None]

\* unset whose range check is made against the storage (8 * bytes.len()),
\* not against n.
unset_storage_checked(self, bit) ==
    IF bit < 8 * Len(self.bytes)
    THEN LET byte_idx == bit \div 8
             bit_idx == bit % 8
         IN [self |-> [self EXCEPT !.bytes[byte_idx + 1] = unset_byte(@, bit_idx)],
             ret |-> Some(bit_at(self.bytes[byte_idx + 1], bit_idx))]
    ELSE [self |-> self, ret |-> None]

\* pub fn unset(&mut self, bit: usize) -> Option<bool>
unset(self, bit) ==
    IF bit < self.n
    THEN LET byte_idx == bit \div 8
             bit_idx == bit % 8
         IN IF byte_idx < Len(self.bytes)
            THEN [self |-> [self EXCEPT !.bytes[byte_idx + 1] = unset_byte(@, bit_idx)],
                  ret |-> Some(bit_at(self.bytes[byte_idx + 1], bit_idx))]
            ELSE [self |-> self, ret |-> None]
    ELSE [self |-> self, ret |-> None]

\* the fold of len() stopping one byte short of the end
RECURSIVE len_fold_short(_, _, _)
len_fold_short(bs, from, acc) ==
    IF from >= Len(bs) THEN acc
    ELSE len_fold_short(bs, from + 1, acc + count_ones(bs[from]))

\* the fold of len(): acc + b.count_ones() over bytes[from..]
RECURSIVE len_fold(_, _, _)
len_fold(bs, from, acc) ==
    IF from > Len(bs) THEN acc
    ELSE len_fold(bs, from + 1, acc + count_ones(bs[from]))

\* pub fn len(&self) -> usize
len(self) == len_fold(self.bytes, 1, 0)

\* the loop of min() returning the position within the byte only
RECURSIVE min_scan_in_byte(_, _)
min_scan_in_byte(bs, byte_idx) ==
    IF byte_idx >= Len(bs) THEN None
    ELSE IF bs[byte_idx + 1] > 0
         THEN Some(leading_zeros(bs[byte_idx + 1]))
         ELSE min_scan_in_byte(bs, byte_idx + 1)

\* the loop of min(): first byte > 0 at or after byte_idx
RECURSIVE min_scan(_, _)
min_scan(bs, byte_idx) ==
    IF byte_idx >= Len(bs) THEN None
    ELSE IF bs[byte_idx + 1] > 0
         THEN Some(8 * byte_idx + leading_zeros(bs[byte_idx + 1]))
         ELSE min_scan(bs, byte_idx + 1)

\* pub fn min(&self) -> Option<usize>
min(self) == min_scan(self.bytes, 0)

\* the bitset held in the state variables
this == [n |-> n, bytes |-> bytes]

\* a String, as the sequence of its characters
Str(chars) == [kind |-> "String", val |-> chars]

\* the binary digits of v without leading zeros, most significant first
RECURSIVE binary_digits(_)
binary_digits(v) ==
    IF v = 0 THEN << >>
    ELSE binary_digits(v \div 2) \o <<IF v % 2 = 1 THEN "1" ELSE "0">>

\* format!("{:08b}", byte): binary, padded with zeros on the left to 8
format_08b(byte) ==
    LET digits == binary_digits(byte)
    IN [i \in 1..(8 - Len(digits)) |-> "0"] \o digits

\* "{}" of a usize: its decimal digits
RECURSIVE format_usize(_)
format_usize(v) ==
    LET digit == <<"0", "1", "2", "3", "4", "5", "6", "7", "8", "9">>[(v % 10) + 1]
    IN IF v < 10 THEN <<digit>> ELSE format_usize(v \div 10) \o <<digit>>

\* for byte in self.bytes.iter() { s.push_str(format!("{:08b}", byte)) },
\* from the byte at byte_idx on
RECURSIVE push_bytes(_, _)
push_bytes(bs, byte_idx) ==
    IF byte_idx >= Len(bs) THEN << >>
    ELSE format_08b(bs[byte_idx + 1]) \o push_bytes(bs, byte_idx + 1)

\* fmt that writes s instead of &s[0..self.n]
fmt_whole_bytes(self) ==
    Str(<<"[", "n", " ", "=", " ">> \o format_usize(self.n) \o <<"]", " ">>
          \o push_bytes(self.bytes, 0))

\* fn fmt(&self, f): the text written; &s[0..self.n] panics when s is
\* shorter than n
fmt(self) ==
    LET s == push_bytes(self.bytes, 0)
    IN IF self.n > Len(s) THEN Panic
       ELSE Str(<<"[", "n", " ", "=", " ">> \o format_usize(self.n)
                  \o <<"]", " ">> \o SubSeq(s, 1, self.n))

\* ------------------------------------------------------------ idle values
\* A component no caller has touched.
BitSetIdle ==
    /\ n = 0
    /\ bytes = << >>
    /\ op = "idle"
    /\ arg = 0
    /\ ret = None

XYIdle ==
    /\ xy = [x |-> 0, y |-> 0]
    /\ xyOp = "idle"
    /\ xyRet = None

RingIdle ==
    /\ nodes = << >>
    /\ point = 0
    /\ ringOp = <<"idle">>
    /\ ringRet = None
    /\ ringWasOk = TRUE

PuzzleBuilderIdle ==
    /\ builder = [state |-> "Idle"]
    /\ pbOp = <<"idle">>
    /\ pbRet = None

EscapeIdle ==
    /\ puzzle = None
    /\ visited = << >>
    /\ to_visit = << >>
    /\ escRet = None

\* ----------------------------------------------------------------- actions
\* let bitset = BitSet::new(cap)
Construct(caps) ==
    \E cap \in caps :
        /\ n = new(cap).n
        /\ bytes = new(cap).bytes
        /\ op = "new"
        /\ arg = 0
        /\ ret = Constructed

Init ==
    /\ Construct(Capacities)
    /\ XYIdle
    /\ RingIdle
    /\ PuzzleBuilderIdle
    /\ EscapeIdle

\* a get that goes through set to read the previous value
GetBySetting(indices) ==
    \E bit \in indices :
        LET r == set(this, bit)
        IN /\ op' = "get"
           /\ arg' = bit
           /\ n' = r.self.n
           /\ bytes' = r.self.bytes
           /\ ret' = r.ret
           /\ UNCHANGED <<xyVars, ringVars, pbVars, escVars>>

Get(indices) ==
    \E bit \in indices :
        /\ op' = "get"
        /\ arg' = bit
        /\ ret' = get(this, bit)
        /\ UNCHANGED <<n, bytes>>
        /\ UNCHANGED <<xyVars, ringVars, pbVars, escVars>>

Set(indices) ==
    \E bit \in indices :
        LET r == set(this, bit)
        IN /\ op' = "set"
           /\ arg' = bit
           /\ n' = r.self.n
           /\ bytes' = r.self.bytes
           /\ ret' = r.ret
           /\ UNCHANGED <<xyVars, ringVars, pbVars, escVars>>

Unset(indices) ==
    \E bit \in indices :
        LET r == unset(this, bit)
        IN /\ op' = "unset"
           /\ arg' = bit
           /\ n' = r.self.n
           /\ bytes' = r.self.bytes
           /\ ret' = r.ret
           /\ UNCHANGED <<xyVars, ringVars, pbVars, escVars>>

LenCall ==
    /\ op' = "len"
    /\ arg' = 0
    /\ ret' = Usize(len(this))
    /\ UNCHANGED <<n, bytes>>
    /\ UNCHANGED <<xyVars, ringVars, pbVars, escVars>>

MinCall ==
    /\ op' = "min"
    /\ arg' = 0
    /\ ret' = min(this)
    /\ UNCHANGED <<n, bytes>>
    /\ UNCHANGED <<xyVars, ringVars, pbVars, escVars>>

\* format!("{}", bitset)
FmtCall ==
    /\ op' = "fmt"
    /\ arg' = 0
    /\ ret' = fmt(this)
    /\ UNCHANGED <<n, bytes>>
    /\ UNCHANGED <<xyVars, ringVars, pbVars, escVars>>

Next ==
    \/ Get(Indices)
    \/ Set(Indices)
    \/ Unset(Indices)
    \/ LenCall
    \/ MinCall
    \/ FmtCall

Spec == Init /\ [][Next]_vars

\* ------------------------------------------------- wide specification
\* The same bitset over capacities up to MaxWideCap, called with the
\* byte-boundary indices.
InitWide ==
    /\ Construct(WideCapacities)
    /\ XYIdle
    /\ RingIdle
    /\ PuzzleBuilderIdle
    /\ EscapeIdle

NextWide ==
    \/ Get(WideIndices)
    \/ Set(WideIndices)
    \/ Unset(WideIndices)
    \/ LenCall
    \/ MinCall
    \/ FmtCall

SpecWide == InitWide /\ [][NextWide]_vars

\* ---------------------------------------------------------------- XY
\* a + b on usize. When the sum does not fit, a build with overflow checks
\* panics ("attempt to add with overflow") and a build without them wraps.
usize_add(a, b) ==
    IF a + b <= MaxUsize THEN {Usize(a + b)}
    ELSE {Panic, Usize((a + b) % (MaxUsize + 1))}

\* pub fn new(x: usize, y: usize) -> XY
XYnew(x, y) == [x |-> x, y |-> y]

\* pub fn north(&self) -> Option<XY>
north(self) ==
    IF self.y = 0 THEN None
    ELSE Some([x |-> self.x, y |-> self.y - 1])

\* pub fn south(&self) -> XY: the outcomes of XY { x: self.x, y: self.y + 1 }
south(self) ==
    {IF r = Panic THEN Panic ELSE [x |-> self.x, y |-> r.val] :
        r \in usize_add(self.y, 1)}

\* pub fn west(&self) -> Option<XY>
west(self) ==
    IF self.x = 0 THEN None
    ELSE Some([x |-> self.x - 1, y |-> self.y])

\* pub fn east(&self) -> XY: the outcomes of XY { x: self.x + 1, y: self.y }
east(self) ==
    {IF r = Panic THEN Panic ELSE [x |-> r.val, y |-> self.y] :
        r \in usize_add(self.x, 1)}

\* let xy = XY::new(x, y)
InitXY ==
    /\ \E x \in 0..MaxUsize, y \in 0..MaxUsize : xy = XYnew(x, y)
    /\ xyOp = "new"
    /\ xyRet = None
    /\ BitSetIdle
    /\ RingIdle
    /\ PuzzleBuilderIdle
    /\ EscapeIdle

\* xy.north(); the caller moves to the point returned, if any
North ==
    /\ xyRet # Panic
    /\ xyOp' = "north"
    /\ xyRet' = north(xy)
    /\ xy' = IF north(xy) = None THEN xy ELSE north(xy).val
    /\ UNCHANGED <<bitsetVars, ringVars, pbVars, escVars>>

\* xy.west()
West ==
    /\ xyRet # Panic
    /\ xyOp' = "west"
    /\ xyRet' = west(xy)
    /\ xy' = IF west(xy) = None THEN xy ELSE west(xy).val
    /\ UNCHANGED <<bitsetVars, ringVars, pbVars, escVars>>

\* xy.south(); after a panic nothing more is called
South ==
    /\ xyRet # Panic
    /\ \E r \in south(xy) :
        /\ xyOp' = "south"
        /\ xyRet' = r
        /\ xy' = IF r = Panic THEN xy ELSE r
    /\ UNCHANGED <<bitsetVars, ringVars, pbVars, escVars>>

\* xy.east()
East ==
    /\ xyRet # Panic
    /\ \E r \in east(xy) :
        /\ xyOp' = "east"
        /\ xyRet' = r
        /\ xy' = IF r = Panic THEN xy ELSE r
    /\ UNCHANGED <<bitsetVars, ringVars, pbVars, escVars>>

NextXY == North \/ South \/ West \/ East

SpecXY == InitXY /\ [][NextXY]_vars

\* ---------------------------------------------------------------- Ring
\* struct RingNode { prev, next }
RingNode(prev, next) == [prev |-> prev, next |-> next]

\* BTreeMap::insert(k, v): adds the key or replaces its value
MapInsert(map, k, v) ==
    [x \in (DOMAIN map) \cup {k} |-> IF x = k THEN v ELSE map[x]]

\* BTreeMap::remove(k)
MapRemove(map, k) == [x \in (DOMAIN map) \ {k} |-> map[x]]

\* for node in map.get_mut(&k) { node.next = v }
SetNext(map, k, v) ==
    IF k \in DOMAIN map THEN [map EXCEPT ![k].next = v] ELSE map

\* for node in map.get_mut(&k) { node.prev = v }
SetPrev(map, k, v) ==
    IF k \in DOMAIN map THEN [map EXCEPT ![k].prev = v] ELSE map

\* the while loop of Ring::new over the rest of the iterator
RECURSIVE ring_new_loop(_, _, _, _)
ring_new_loop(map, first_node, last_node, rest) ==
    IF rest = << >> THEN Ok([nodes |-> map, point |-> first_node])
    ELSE LET c == Head(rest)
         IN IF c \in DOMAIN map THEN Err(<<"Duplicate entry in interator", c>>)
            ELSE LET m1 == SetNext(map, last_node, c)
                     m2 == SetPrev(m1, first_node, c)
                     m3 == MapInsert(m2, c, RingNode(last_node, first_node))
                 IN ring_new_loop(m3, first_node, c, Tail(rest))

\* fn new<J>(mut j: J) -> Result<Ring, String>
ring_new(items) ==
    IF items = << >> THEN Err(<<"Ring must be non-empty">>)
    ELSE LET c == Head(items)
         IN ring_new_loop(MapInsert(<< >>, c, RingNode(c, c)), c, c, Tail(items))

\* fn len(&self) -> usize
ring_len(self) == Cardinality(DOMAIN self.nodes)

\* fn max(&self) -> &u32 (unwrap: panics on an empty map)
ring_max(self) ==
    IF DOMAIN self.nodes = {} THEN Panic
    ELSE Ok(CHOOSE m \in DOMAIN self.nodes : \A k \in DOMAIN self.nodes : k <= m)

\* fn advance_clockwise(&mut self)
advance_clockwise(self) ==
    IF self.point \in DOMAIN self.nodes
    THEN [self EXCEPT !.point = self.nodes[self.point].next]
    ELSE self

\* insert_after that puts the new node into the map before it looks up
\* existing_node
insert_after_insert_first(self, existing_node, new_node) ==
    LET m0 == MapInsert(self.nodes, new_node,
                        RingNode(existing_node, existing_node))
    IN IF existing_node \notin DOMAIN self.nodes
       THEN [self |-> [self EXCEPT !.nodes = m0],
             ret |-> Err(<<"Node not found in ring", existing_node>>)]
       ELSE LET c == self.nodes[existing_node].next
                m1 == SetNext(m0, existing_node, new_node)
                m2 == SetPrev(m1, c, new_node)
                m3 == MapInsert(m2, new_node, RingNode(existing_node, c))
            IN [self |-> [self EXCEPT !.nodes = m3], ret |-> Ok(<< >>)]

\* fn insert_after(&mut self, existing_node: u32, new_node: u32)
\* The result pairs the ring after the call with the returned value.
insert_after(self, existing_node, new_node) ==
    IF existing_node \notin DOMAIN self.nodes
    THEN [self |-> self, ret |-> Err(<<"Node not found in ring", existing_node>>)]
    ELSE LET c == self.nodes[existing_node].next
             m1 == SetNext(self.nodes, existing_node, new_node)
             m2 == SetPrev(m1, c, new_node)
             m3 == MapInsert(m2, new_node, RingNode(existing_node, c))
         IN [self |-> [self EXCEPT !.nodes = m3], ret |-> Ok(<< >>)]

\* the while loop of remove_after_point; r is the vector built so far
RECURSIVE remove_loop(_, _, _)
remove_loop(self, r, k) ==
    IF self.point \notin DOMAIN self.nodes THEN [self |-> self, ret |-> Ok(r)]
    ELSE IF Len(r) = k THEN [self |-> self, ret |-> Ok(r)]
    ELSE LET next_node == self.nodes[self.point].next
         IN IF next_node \notin DOMAIN self.nodes
            THEN [self |-> self,
                  ret |-> Err(<<"No adjacency information for node", next_node>>)]
            ELSE LET next2 == self.nodes[next_node].next
                     m1 == MapRemove(self.nodes, next_node)
                     m2 == SetNext(m1, self.point, next2)
                     m3 == SetPrev(m2, next2, self.point)
                 IN remove_loop([self EXCEPT !.nodes = m3],
                                Append(r, next_node), k)

\* fn remove_after_point(&mut self, n: usize) -> Result<Vec<u32>, String>
remove_after_point(self, k) ==
    IF ring_len(self) > k THEN remove_loop(self, << >>, k)
    ELSE [self |-> self,
          ret |-> Err(<<"Ring is too small for requested operation", k,
                        ring_len(self)>>)]

\* the destination loop of crab_step, entered with d; the map is not empty
RECURSIVE destination_loop(_, _)
destination_loop(ring, d) ==
    LET d1 == IF d = 0 THEN ring_max(ring).val ELSE d - 1
    IN IF d1 \in DOMAIN ring.nodes THEN d1 ELSE destination_loop(ring, d1)

\* while let Some(c) = removed.pop() { ring.insert_after(destination, c)? }
RECURSIVE insert_removed(_, _, _)
insert_removed(ring, destination, removed) ==
    IF removed = << >> THEN [self |-> ring, ret |-> Ok(<< >>)]
    ELSE LET c == removed[Len(removed)]
             r == insert_after(ring, destination, c)
         IN IF r.ret.kind = "Err" THEN r
            ELSE insert_removed(r.self, destination,
                                SubSeq(removed, 1, Len(removed) - 1))

\* fn crab_step(ring: &mut Ring) -> Result<(), String>
crab_step(ring) ==
    LET rm == remove_after_point(ring, 3)
    IN IF rm.ret.kind = "Err" THEN rm
       ELSE IF DOMAIN rm.self.nodes = {} THEN [self |-> rm.self, ret |-> Panic]
       ELSE LET destination == destination_loop(rm.self, rm.self.point)
                ins == insert_removed(rm.self, destination, rm.ret.val)
            IN IF ins.ret.kind = "Err" THEN ins
               ELSE [self |-> advance_clockwise(ins.self), ret |-> Ok(<< >>)]

\* the ring held in the state variables
theRing == [nodes |-> nodes, point |-> point]

\* sequences of at most k labels
ItemSeqs(k) == UNION {[1..m -> Labels] : m \in 0..k}

\* the keys met by hopping next pointers from k, k included
RECURSIVE NextOrbit(_, _, _)
NextOrbit(map, k, seen) ==
    IF k \in seen \/ k \notin DOMAIN map THEN seen
    ELSE NextOrbit(map, map[k].next, seen \cup {k})

\* The invariant of the Ring doc comment: point is a key, and hopping next
\* pointers and hopping prev pointers traverse the entire keyset in the
\* same cycle, in reverse order.
RingInvariant(self) ==
    /\ self.point \in DOMAIN self.nodes
    /\ \A k \in DOMAIN self.nodes :
           /\ self.nodes[k].next \in DOMAIN self.nodes
           /\ self.nodes[k].prev \in DOMAIN self.nodes
           /\ self.nodes[self.nodes[k].next].prev = k
           /\ self.nodes[self.nodes[k].prev].next = k
           /\ NextOrbit(self.nodes, k, {}) = DOMAIN self.nodes

\* A Ring value exists (Ring::new returned Ok and nothing panicked since),
\* and the caller goes on calling it while its invariant holds and for one
\* more call after a call has broken it.
HasRing ==
    /\ ringOp # <<"idle">>
    /\ ~(ringOp = <<"new">> /\ ringRet.kind = "Err")
    /\ ringRet # Panic
    /\ RingInvariant(theRing) \/ ringWasOk

\* let ring = Ring::new(items.into_iter())
InitRing ==
    /\ \E items \in ItemSeqs(MaxItems) :
        LET r == ring_new(items)
        IN /\ ringOp = <<"new">>
           /\ nodes = IF r.kind = "Ok" THEN r.val.nodes ELSE << >>
           /\ point = IF r.kind = "Ok" THEN r.val.point ELSE 0
           /\ ringRet = IF r.kind = "Ok" THEN Ok(<< >>) ELSE r
    /\ ringWasOk = TRUE
    /\ BitSetIdle
    /\ XYIdle
    /\ PuzzleBuilderIdle
    /\ EscapeIdle

\* ring.insert_after(existing_node, new_node)
InsertAfter ==
    /\ HasRing
    /\ \E existing_node \in Labels, new_node \in Labels :
        LET r == insert_after(theRing, existing_node, new_node)
        IN /\ ringOp' = <<"insert_after", existing_node, new_node>>
           /\ nodes' = r.self.nodes
           /\ point' = r.self.point
           /\ ringRet' = r.ret
    /\ ringWasOk' = RingInvariant(theRing)
    /\ UNCHANGED <<bitsetVars, xyVars, pbVars, escVars>>

\* ring.remove_after_point(k)
RemoveAfterPoint ==
    /\ HasRing
    /\ \E k \in 0..MaxRemove :
        LET r == remove_after_point(theRing, k)
        IN /\ ringOp' = <<"remove_after_point", k>>
           /\ nodes' = r.self.nodes
           /\ point' = r.self.point
           /\ ringRet' = r.ret
    /\ ringWasOk' = RingInvariant(theRing)
    /\ UNCHANGED <<bitsetVars, xyVars, pbVars, escVars>>

\* ring.advance_clockwise()
AdvanceClockwise ==
    /\ HasRing
    /\ ringOp' = <<"advance_clockwise">>
    /\ nodes' = advance_clockwise(theRing).nodes
    /\ point' = advance_clockwise(theRing).point
    /\ ringRet' = Ok(<< >>)
    /\ ringWasOk' = RingInvariant(theRing)
    /\ UNCHANGED <<bitsetVars, xyVars, pbVars, escVars>>

\* crab_step(&mut ring)
CrabStep ==
    /\ HasRing
    /\ LET r == crab_step(theRing)
       IN /\ ringOp' = <<"crab_step">>
          /\ nodes' = r.self.nodes
          /\ point' = r.self.point
          /\ ringRet' = r.ret
    /\ ringWasOk' = RingInvariant(theRing)
    /\ UNCHANGED <<bitsetVars, xyVars, pbVars, escVars>>

NextRing == InsertAfter \/ RemoveAfterPoint \/ AdvanceClockwise \/ CrabStep

SpecRing == InitRing /\ [][NextRing]_vars

\* ------------------------------------------------------- PuzzleBuilder
\* A line is a sequence of one-character strings.
\* PuzzleBuilder::Empty
Empty == [state |-> "Empty"]

\* fn open(width: usize) -> PuzzleBuilder
open(width) ==
    [state |-> "Open", width |-> width, height |-> 0,
     door |-> None, player |-> None, walls |-> {}]

\* PuzzleBuilder::Closed { width, height, door, player, walls }
Closed(width, height, door, player, walls) ==
    [state |-> "Closed", width |-> width, height |-> height,
     door |-> door, player |-> player, walls |-> walls]

\* fn err(msg: &str) -> PuzzleBuilder; a message is the tuple of its fixed
\* text and the values formatted into it
err(msg) == [state |-> "Error", msg |-> msg]

\* the first position from j on that holds no character of class
RECURSIVE RunEnd(_, _, _)
RunEnd(line, j, class) ==
    IF j <= Len(line) /\ line[j] \in class
    THEN RunEnd(line, j + 1, class)
    ELSE j

\* Regex::captures(line).and_then(|c| c.get(1)) for a pattern of the form
\* first class* last, where neither first nor last is in class. The
\* pattern is not anchored: the match is the leftmost one, and from a given
\* start the run of class characters is the only candidate.
captures(line, first, class, last) ==
    LET ends(i) == RunEnd(line, i + 1, class)
        starts == {i \in 1..Len(line) :
                      /\ line[i] = first
                      /\ ends(i) <= Len(line)
                      /\ line[ends(i)] = last}
    IN IF starts = {} THEN None
       ELSE LET i == CHOOSE k \in starts : \A m \in starts : k <= m
            IN Some(SubSeq(line, i + 1, ends(i) - 1))

\* static ref PAT_OUTER: Regex = Regex::new(r"\+(-*)\+")
PAT_OUTER(line) == captures(line, "+", {"-"}, "+")

\* static ref PAT_INNER: Regex = Regex::new(r"\|([ DoX]*)\|")
PAT_INNER(line) == captures(line, "|", {" ", "D", "o", "X"}, "|")

\* fold_row in which a later D or o replaces the door or player
RECURSIVE fold_row_last_wins(_, _, _, _)
fold_row_last_wins(b, row, idx, height) ==
    IF row = << >> THEN b
    ELSE LET c == Head(row)
             b1 == IF c = "D" THEN [b EXCEPT !.door = Some(XYnew(idx, height))]
                   ELSE IF c = "o"
                   THEN [b EXCEPT !.player = Some(XYnew(idx, height))]
                   ELSE IF c = "X"
                   THEN [b EXCEPT !.walls = @ \cup {XYnew(idx, height)}]
                   ELSE b
         IN fold_row_last_wins(b1, Tail(row), idx + 1, height)

\* row.chars().enumerate().fold(B::Open { door, player }, ...): b is the
\* accumulator together with the walls the closure has inserted so far;
\* idx is the index of the head of row
RECURSIVE fold_row(_, _, _, _)
fold_row(b, row, idx, height) ==
    IF row = << >> THEN b
    ELSE LET c == Head(row)
             b1 == IF b.kind = "Open" /\ c = "D"
                   THEN IF b.door # None
                        THEN [kind |-> "Error",
                              msg |-> <<"Duplicate door detected in row", height>>]
                        ELSE [b EXCEPT !.door = Some(XYnew(idx, height))]
                   ELSE IF b.kind = "Open" /\ c = "o"
                   THEN IF b.player # None
                        THEN [kind |-> "Error",
                              msg |-> <<"Duplicate player detected in row", height>>]
                        ELSE [b EXCEPT !.player = Some(XYnew(idx, height))]
                   ELSE IF b.kind = "Open" /\ c = "X"
                   THEN [b EXCEPT !.walls = @ \cup {XYnew(idx, height)}]
                   ELSE b
         IN fold_row(b1, Tail(row), idx + 1, height)

\* the arms of add for PuzzleBuilder::Empty
add_empty(line) ==
    LET cs == PAT_OUTER(line)
    IN IF cs = None THEN err(<<"Incorrect boundary string", line>>)
       ELSE open(Len(cs.val))

\* add_open that looks for the missing player before the missing door
add_open_player_first(self, line) ==
    LET outer == PAT_OUTER(line)
        inner == PAT_INNER(line)
    IN IF self.door # None /\ self.player # None /\ outer # None
       THEN IF Len(outer.val) # self.width
            THEN err(<<"Improper line length", Len(outer.val), self.width>>)
            ELSE Closed(self.width, self.height, self.door.val,
                        self.player.val, self.walls)
       ELSE IF self.player = None /\ outer # None
       THEN err(<<"No player in puzzle.">>)
       ELSE IF self.door = None /\ outer # None
       THEN err(<<"No door in puzzle.">>)
       ELSE IF inner = None THEN err(<<"Improper line", line>>)
       ELSE IF Len(inner.val) # self.width
       THEN err(<<"Improper line length", Len(inner.val), self.width>>)
       ELSE LET b == fold_row([kind |-> "Open", door |-> self.door,
                               player |-> self.player, walls |-> self.walls],
                              inner.val, 0, self.height)
            IN IF b.kind = "Error" THEN err(b.msg)
               ELSE [state |-> "Open", width |-> self.width,
                     height |-> self.height + 1, door |-> b.door,
                     player |-> b.player, walls |-> b.walls]

\* the arms of add for PuzzleBuilder::Open (the arm "Internal server
\* error" needs a line that matches PAT_OUTER without a capture; there is
\* none)
add_open(self, line) ==
    LET outer == PAT_OUTER(line)
        inner == PAT_INNER(line)
    IN IF self.door # None /\ self.player # None /\ outer # None
       THEN IF Len(outer.val) # self.width
            THEN err(<<"Improper line length", Len(outer.val), self.width>>)
            ELSE Closed(self.width, self.height, self.door.val,
                        self.player.val, self.walls)
       ELSE IF self.door = None /\ outer # None
       THEN err(<<"No door in puzzle.">>)
       ELSE IF self.player = None /\ outer # None
       THEN err(<<"No player in puzzle.">>)
       ELSE IF inner = None THEN err(<<"Improper line", line>>)
       ELSE IF Len(inner.val) # self.width
       THEN err(<<"Improper line length", Len(inner.val), self.width>>)
       ELSE LET b == fold_row([kind |-> "Open", door |-> self.door,
                               player |-> self.player, walls |-> self.walls],
                              inner.val, 0, self.height)
            IN IF b.kind = "Error" THEN err(b.msg)
               ELSE [state |-> "Open", width |-> self.width,
                     height |-> self.height + 1, door |-> b.door,
                     player |-> b.player, walls |-> b.walls]

\* add whose Error arm reports the new line instead of keeping the message
add_error_overwritten(self, line) ==
    IF self.state = "Error" THEN err(<<"Improper line", line>>)
    ELSE IF self.state = "Empty" THEN add_empty(line)
    ELSE IF self.state = "Closed"
    THEN err(<<"Cannot add line to closed puzzle.">>)
    ELSE add_open(self, line)

\* fn add(self, line: &str) -> PuzzleBuilder
add(self, line) ==
    IF self.state = "Error" THEN err(self.msg)
    ELSE IF self.state = "Empty" THEN add_empty(line)
    ELSE IF self.state = "Closed"
    THEN err(<<"Cannot add line to closed puzzle.">>)
    ELSE add_open(self, line)

\* fn build(self) -> Result<Puzzle, PuzzleParseError>
build(self) ==
    IF self.state = "Empty" THEN Err(<<"Empty builder">>)
    ELSE IF self.state = "Error" THEN Err(self.msg)
    ELSE IF self.state = "Closed" /\ self.door \in self.walls
    THEN Err(<<"Door and wall at same location.">>)
    ELSE IF self.state = "Closed" /\ self.player \in self.walls
    THEN Err(<<"Player and wall at same location.">>)
    ELSE IF self.state = "Closed"
    THEN Ok([width |-> self.width, height |-> self.height,
             door |-> self.door, player |-> self.player,
             walls |-> self.walls])
    ELSE Err(<<"Incomplete builder">>)

\* the lines read from stdin
Dashes(k) == [i \in 1..k |-> "-"]

BoundaryLines == {<<"+">> \o Dashes(k) \o <<"+">> : k \in 0..MaxWidth}

InteriorLines ==
    {<<"|">> \o row \o <<"|">> :
        row \in UNION {[1..w -> {" ", "D", "o", "X"}] : w \in 0..MaxWidth}}

\* lines that match neither pattern, or match one away from their start
OddLines ==
    { << >>, <<"a">>, <<"+">>, <<"|">>, <<"+", "-">>, <<"|", "D">>,
      <<"-", "+", "+">>, <<"|", "a", "|", "|">>,
      <<"a", "+", "-", "+", "|">>, <<"+", "|", "D", "|", "a">>,
      <<"+", "-", "+", "|", "D", "|">>, <<"|", "o", "|", "X", "|">>,
      <<"+", "-", "+", "-", "-", "+">> }

Lines == BoundaryLines \cup InteriorLines \cup OddLines

\* what pbOp records of the line given to add
OuterWidth(line) ==
    IF PAT_OUTER(line) = None THEN None ELSE Some(Len(PAT_OUTER(line).val))

\* the caller holds a builder that build has not consumed
HasBuilder == pbOp[1] \in {"new", "add"}

\* PuzzleBuilder::Empty, as main starts its fold
InitPB ==
    /\ builder = Empty
    /\ pbOp = <<"new">>
    /\ pbRet = None
    /\ BitSetIdle
    /\ XYIdle
    /\ RingIdle
    /\ EscapeIdle

\* builder = builder.add(line)
AddLine ==
    /\ HasBuilder
    /\ \E l \in Lines :
           /\ (builder.state = "Open" /\ builder.height >= MaxHeight)
                  => PAT_OUTER(l) # None
           /\ builder' = add(builder, l)
           /\ pbOp' = <<"add", builder.state, OuterWidth(l)>>
    /\ UNCHANGED <<pbRet, bitsetVars, xyVars, ringVars, escVars>>

\* builder.build()
Build ==
    /\ HasBuilder
    /\ pbRet' = build(builder)
    /\ pbOp' = <<"build">>
    /\ UNCHANGED <<builder, bitsetVars, xyVars, ringVars, escVars>>

NextPB == AddLine \/ Build

SpecPB == InitPB /\ [][NextPB]_vars

\* ---------------------------------------------------------------- escape
\* struct Puzzle { width, height, door, player, walls }
Puzzle(width, height, door, player, walls) ==
    [width |-> width, height |-> height, door |-> door, player |-> player,
     walls |-> walls]

\* the cells of a width x height character array
Cells(width, height) ==
    {XYnew(x, y) : x \in 0..(width - 1), y \in 0..(height - 1)}

\* A puzzle as the comment on Puzzle describes it and as build returns it:
\* one D, one o and zero or more X in the interior.
WellFormed(p) ==
    /\ p.width \in 1..MaxUsize
    /\ p.height \in 1..MaxUsize
    /\ p.door \in Cells(p.width, p.height)
    /\ p.player \in Cells(p.width, p.height)
    /\ p.door # p.player
    /\ p.walls \subseteq Cells(p.width, p.height) \ {p.door, p.player}

\* to_visit.pop_back(): the last entry and the entries before it
pop_back(q) == [item |-> q[Len(q)], rest |-> SubSeq(q, 1, Len(q) - 1)]

\* to_visit.pop_front(): the first entry and the entries after it
pop_front(q) == [item |-> Head(q), rest |-> Tail(q)]

\* if !visited.contains_key(&c) && !self.walls.contains(&c) && bound {
\*     to_visit.push_back((c, path.clone() + step)) }
push_neighbour(self, vis, q, c, bound, path, step) ==
    IF c \notin DOMAIN vis /\ c \notin self.walls /\ bound
    THEN Append(q, <<c, Append(path, step)>>)
    ELSE q

\* for c in option { push as above }: nothing for None
push_some(self, vis, q, option, path, step) ==
    IF option = None THEN q
    ELSE push_neighbour(self, vis, q, option.val, TRUE, path, step)

\* The body of the while let loop of escape for a popped (xy, path) with
\* xy neither the door nor visited; q is the queue after the pop. The
\* outcomes are the queue and map after the iteration, or Panic when
\* south() or east() overflows in a build with overflow checks.
expand(self, vis, q, cell, path) ==
    UNION {
        IF s = Panic THEN {Panic}
        ELSE LET q1 == push_neighbour(self, vis, q, s, s.y < self.height,
                                      path, "S")
             IN UNION {
                 IF e = Panic THEN {Panic}
                 ELSE LET q2 == push_neighbour(self, vis, q1, e,
                                               e.x < self.width, path, "E")
                          q3 == push_some(self, vis, q2, north(cell), path, "N")
                          q4 == push_some(self, vis, q3, west(cell), path, "W")
                      IN {[to_visit |-> q4,
                           visited |-> MapInsert(vis, cell, path)]}
                 : e \in east(cell)}
        : s \in south(cell)}

\* escape is running its loop
Escaping == puzzle # None /\ escRet = None

\* let mut visited = BTreeMap::new(); let mut to_visit = VecDeque::new();
\* to_visit.push_back((self.player.clone(), "".to_owned()))
InitEscape ==
    /\ \E width \in 1..MaxUsize, height \in 1..MaxUsize :
           /\ width * height <= MaxCells
           /\ \E door \in Cells(width, height), player \in Cells(width, height) :
                  /\ door # player
                  /\ \E walls \in SUBSET (Cells(width, height) \ {door, player}) :
                         puzzle = Puzzle(width, height, door, player, walls)
    /\ visited = << >>
    /\ to_visit = << <<puzzle.player, << >> >> >>
    /\ escRet = None
    /\ BitSetIdle
    /\ XYIdle
    /\ RingIdle
    /\ PuzzleBuilderIdle

\* while let Some((xy, path)) = to_visit.pop_front() with xy == self.door:
\* return Ok(path)
EscapeFound ==
    /\ Escaping
    /\ to_visit # << >>
    /\ LET p == pop_front(to_visit)
       IN /\ p.item[1] = puzzle.door
          /\ to_visit' = p.rest
          /\ escRet' = Ok(p.item[2])
    /\ UNCHANGED <<puzzle, visited, bitsetVars, xyVars, ringVars, pbVars>>

\* one iteration of the loop for an xy that is not the door: nothing but
\* the pop when xy is visited, the pushes and visited.insert otherwise
EscapeVisit ==
    /\ Escaping
    /\ to_visit # << >>
    /\ LET p == pop_front(to_visit)
           cell == p.item[1]
       IN /\ cell # puzzle.door
          /\ IF cell \in DOMAIN visited
             THEN /\ to_visit' = p.rest
                  /\ UNCHANGED <<visited, escRet>>
             ELSE \E r \in expand(puzzle, visited, p.rest, cell, p.item[2]) :
                      IF r = Panic
                      THEN /\ escRet' = Panic
                           /\ to_visit' = p.rest
                           /\ UNCHANGED visited
                      ELSE /\ to_visit' = r.to_visit
                           /\ visited' = r.visited
                           /\ UNCHANGED escRet
    /\ UNCHANGED <<puzzle, bitsetVars, xyVars, ringVars, pbVars>>

\* the queue is exhausted: Err(IllPosedPuzzle{})
EscapeExhausted ==
    /\ Escaping
    /\ to_visit = << >>
    /\ escRet' = Err(<<"IllPosedPuzzle">>)
    /\ UNCHANGED <<puzzle, visited, to_visit, bitsetVars, xyVars, ringVars, pbVars>>

NextEscape == EscapeFound \/ EscapeVisit \/ EscapeExhausted

\* escape is one uninterrupted call: its loop keeps running until it returns
SpecEscape == InitEscape /\ [][NextEscape]_vars /\ WF_vars(NextEscape)

\* ------------------------------------------------------------- properties
\* The abstract set: the indices i in [0, n) with get(i) == Some(true).
Members == {i \in 0..(n - 1) : get(this, i) = Some(TRUE)}

\* The bit at global position p of the storage, read without a range check.
RawBit(bs, p) == bit_at(bs[(p \div 8) + 1], p % 8)

StorageBits(bs) == 0..(8 * Len(bs) - 1)

TypeOK ==
    /\ n \in Nat
    /\ bytes \in Seq(0..255)
    /\ op \in {"idle", "new", "get", "set", "unset", "len", "min", "fmt"}
    /\ arg \in Indices \cup WideIndices

\* C1: after any sequence of set/unset calls, in range or not, len() (the
\* popcount over all storage bytes) equals the number of indices i in
\* [0, n) for which get(i) == Some(true); a len() call returns that number.
C1_LenCountsMembers ==
    /\ len(this) = Cardinality(Members)
    /\ op = "len" => ret = Usize(Cardinality(Members))

\* a len() call on a bitset with padding whose last index is a member
C1_Witness ==
    /\ op = "len"
    /\ n % 8 # 0
    /\ ret.val >= 3
    /\ RawBit(bytes, n - 1)

\* C2: min() returns Some(m) with m the smallest index whose get is
\* Some(true), and None exactly when no index is set.
C2_MinIsSmallestMember ==
    LET expected == IF Members = {} THEN None
                    ELSE Some(CHOOSE m \in Members : \A k \in Members : m <= k)
    IN /\ min(this) = expected
       /\ (min(this) = None) <=> (Members = {})
       /\ op = "min" => ret = expected

\* a min() call that scanned past a zero first byte
C2_Witness ==
    /\ op = "min"
    /\ ret.kind = "Some"
    /\ ret.val >= 8
    /\ bytes[1] = 0
    /\ Cardinality(Members) >= 2

\* C3: for index < n, immediately after set(index) get(index) is
\* Some(true), and immediately after unset(index) get(index) is Some(false).
C3_GetAfterSetUnset ==
    /\ (op = "set" /\ arg < n) => get(this, arg) = Some(TRUE)
    /\ (op = "unset" /\ arg < n) => get(this, arg) = Some(FALSE)

\* an unset of an index that a previous set had put in
C3_Witness ==
    /\ op = "unset"
    /\ arg < n
    /\ ret = Some(TRUE)
    /\ get(this, arg) = Some(FALSE)

\* C4: for index < n, set(index) and unset(index) return the value
\* get(index) had immediately before the call.
C4_ReturnsPreviousValue ==
    [][(op' \in {"set", "unset"} /\ arg' < n) => ret' = get(this, arg')]_vars

C4_Witness ==
    /\ op = "set"
    /\ arg < n
    /\ ret = Some(TRUE)
    /\ Cardinality(Members) >= 2

\* C5: for index >= n, including indices inside the last storage byte,
\* get, set and unset return None and leave n and the storage bytes as
\* they were.
C5_OutOfRangeIsNone ==
    [][(op' \in {"get", "set", "unset"} /\ arg' >= n)
          => (ret' = None /\ bytes' = bytes /\ n' = n)]_vars

\* capacity 9, an unset at one of the indices 9..15 of the last byte
C5_Witness ==
    /\ n = 9
    /\ op = "unset"
    /\ arg \in 9..15
    /\ ret = None
    /\ Members = {0, 1, 7, 8}

\* C6: every bit of the final storage byte at a position >= n is 0.
C6_PaddingBitsClear ==
    \A p \in StorageBits(bytes) : p >= n => ~RawBit(bytes, p)

\* a set aimed at a padding bit of a bitset whose indices are all set
C6_Witness ==
    /\ op = "set"
    /\ arg >= n
    /\ arg \in StorageBits(bytes)
    /\ n > 0
    /\ Members = 0..(n - 1)

\* C7: the storage has ceil(n / 8) bytes (8 -> 1, 9 -> 2, 16 -> 2,
\* 17 -> 3) in every state, and no call changes n or the storage length.
C7_StorageLength ==
    /\ [](/\ 8 * Len(bytes) >= n
          /\ 8 * Len(bytes) < n + 8
          /\ n = 8 => Len(bytes) = 1
          /\ n = 9 => Len(bytes) = 2
          /\ n = 16 => Len(bytes) = 2
          /\ n = 17 => Len(bytes) = 3)
    /\ [][n' = n /\ Len(bytes') = Len(bytes)]_vars

C7_Witness ==
    /\ n = 17
    /\ Len(bytes) = 3
    /\ op = "unset"
    /\ arg = 16
    /\ ret = Some(TRUE)

\* C8: set(index) with index < n changes exactly the bit at index, which
\* becomes 1, and leaves every other storage bit as it was; unset(index)
\* changes exactly the bit at index, which becomes 0.
C8_ExactlyOneBit ==
    [][(op' \in {"set", "unset"} /\ arg' < n)
          => /\ n' = n
             /\ Len(bytes') = Len(bytes)
             /\ RawBit(bytes', arg') = (op' = "set")
             /\ \A p \in StorageBits(bytes) \ {arg'} :
                    RawBit(bytes', p) = RawBit(bytes, p)]_vars

\* a set that changed a bit in a byte that already held other bits
C8_Witness ==
    /\ op = "set"
    /\ arg < n
    /\ ret = Some(FALSE)
    /\ \E i \in Members : i # arg /\ i \div 8 = arg \div 8

\* C9: calling set(index) twice in a row leaves the bitset as one call
\* left it, and the same holds for unset(index).
C9_Idempotent ==
    [][(op \in {"set", "unset"} /\ op' = op /\ arg' = arg)
          => (bytes' = bytes /\ n' = n)]_vars

\* a set of the only member, which therefore was set before the call
C9_Witness ==
    /\ op = "set"
    /\ arg < n
    /\ ret = Some(TRUE)
    /\ Members = {arg}

\* C10: a freshly constructed bitset has all storage bytes zero: len() is
\* 0, min() is None and get(i) is Some(false) for every i < n.
C10_FreshIsEmpty ==
    op = "new" =>
        /\ \A k \in 1..Len(bytes) : bytes[k] = 0
        /\ len(this) = 0
        /\ min(this) = None
        /\ \A i \in 0..(n - 1) : get(this, i) = Some(FALSE)

C10_Witness ==
    /\ op = "new"
    /\ n > 8
    /\ n % 8 # 0
    /\ Len(bytes) >= 2

\* Bit j of a byte counting from the most significant end (j = 0 is 0x80),
\* by place value.
MsbBit(byte, j) == (byte \div Pow2(7 - j)) % 2 = 1

\* C11: MSB-first addressing. In every state each byte is within 8 bits and
\* index 8*i + j is a member exactly when bit j of byte i, counted from the
\* most significant end, is 1; get returns that bit; set adds the place
\* value 0x80 >> j to the byte when the bit was clear, unset subtracts it
\* when the bit was set, and otherwise the byte keeps its value.
C11_MsbFirstRefinement ==
    /\ [](/\ \A k \in 1..Len(bytes) : bytes[k] \in 0..255
          /\ \A i \in 0..(n - 1) :
                 (i \in Members) <=> MsbBit(bytes[(i \div 8) + 1], i % 8)
          /\ (op = "get" /\ arg < n)
                 => ret = Some(MsbBit(bytes[(arg \div 8) + 1], arg % 8)))
    /\ [][(op' \in {"set", "unset"} /\ arg' < n)
             => LET k == (arg' \div 8) + 1
                    j == arg' % 8
                    was == MsbBit(bytes[k], j)
                IN bytes'[k] =
                       IF op' = "set"
                       THEN bytes[k] + (IF was THEN 0 ELSE Pow2(7 - j))
                       ELSE bytes[k] - (IF was THEN Pow2(7 - j) ELSE 0)]_vars

\* the byte 0x82 of get_test: a get of index 6 answers Some(true)
C11_Witness ==
    /\ n >= 7
    /\ bytes[1] = 130
    /\ op = "get"
    /\ arg = 6
    /\ ret = Some(TRUE)

\* C12: capacity 0 is legal: the bitset has zero storage bytes, stays
\* empty, get / set / unset return None for every index, len() is 0 and
\* min() is None.
C12_CapacityZero ==
    n = 0 =>
        /\ bytes = << >>
        /\ len(this) = 0
        /\ min(this) = None
        /\ \A i \in Indices :
               /\ get(this, i) = None
               /\ set(this, i) = [self |-> this, ret |-> None]
               /\ unset(this, i) = [self |-> this, ret |-> None]
        /\ op \in {"get", "set", "unset", "min"} => ret = None
        /\ op = "len" => ret = Usize(0)

C12_Witness ==
    /\ n = 0
    /\ op = "set"
    /\ arg = 0
    /\ ret = None

\* C13: get, len and min have no side effects: n and bytes are the same
\* before and after the call, for every argument.
C13_QueriesDoNotMutate ==
    [][op' \in {"get", "len", "min"} => (n' = n /\ bytes' = bytes)]_vars

\* a get that answered Some(false) on a bitset that has members
C13_Witness ==
    /\ op = "get"
    /\ arg < n
    /\ ret = Some(FALSE)
    /\ Members # {}
    /\ arg \notin Members

\* C14: on bs = new(16) the calls set(0), set(1), len(), min(), unset(0),
\* min(), get(15), get(16) return Some(false), Some(false), 2, Some(0),
\* Some(true), Some(1), Some(false), None.
C14_Scenario ==
    (op = "new" /\ n = 16) =>
        LET s1 == set(this, 0)
            s2 == set(s1.self, 1)
            s3 == unset(s2.self, 0)
        IN /\ s1.ret = Some(FALSE)
           /\ s2.ret = Some(FALSE)
           /\ len(s2.self) = 2
           /\ min(s2.self) = Some(0)
           /\ s3.ret = Some(TRUE)
           /\ min(s3.self) = Some(1)
           /\ get(s3.self, 15) = Some(FALSE)
           /\ get(s3.self, 16) = None

\* the state at the end of the scenario
C14_Witness ==
    /\ n = 16
    /\ op = "get"
    /\ arg = 16
    /\ ret = None
    /\ Members = {1}

\* C15: north() is None exactly when y == 0 and otherwise Some of the point
\* with y - 1 and the same x; west() likewise on x; south() and east()
\* always return the point with y + 1 / x + 1; hence p.south().north() ==
\* Some(p) and p.east().west() == Some(p) for every p.
C15_XYNeighbours ==
    [][/\ xyOp' = "north" =>
              xyRet' = IF xy.y = 0 THEN None
                       ELSE Some([x |-> xy.x, y |-> xy.y - 1])
       /\ xyOp' = "west" =>
              xyRet' = IF xy.x = 0 THEN None
                       ELSE Some([x |-> xy.x - 1, y |-> xy.y])
       /\ xyOp' = "south" =>
              /\ xyRet' = [x |-> xy.x, y |-> xy.y + 1]
              /\ north(xyRet') = Some(xy)
       /\ xyOp' = "east" =>
              /\ xyRet' = [x |-> xy.x + 1, y |-> xy.y]
              /\ west(xyRet') = Some(xy)]_vars

\* The part of C15 away from the end of usize: the statement holds for
\* south() when y < usize::MAX and for east() when x < usize::MAX.
XYNeighboursBelowMax ==
    [][/\ xyOp' = "north" =>
              xyRet' = IF xy.y = 0 THEN None
                       ELSE Some([x |-> xy.x, y |-> xy.y - 1])
       /\ xyOp' = "west" =>
              xyRet' = IF xy.x = 0 THEN None
                       ELSE Some([x |-> xy.x - 1, y |-> xy.y])
       /\ (xyOp' = "south" /\ xy.y < MaxUsize) =>
              /\ xyRet' = [x |-> xy.x, y |-> xy.y + 1]
              /\ north(xyRet') = Some(xy)
       /\ (xyOp' = "east" /\ xy.x < MaxUsize) =>
              /\ xyRet' = [x |-> xy.x + 1, y |-> xy.y]
              /\ west(xyRet') = Some(xy)]_vars

\* ------------------------------------------------------- Ring properties
\* A Ring value exists: Ring::new returned Ok and nothing panicked since.
RingExists ==
    /\ ringOp # <<"idle">>
    /\ ~(ringOp = <<"new">> /\ ringRet.kind = "Err")
    /\ ringRet # Panic

\* the cnt labels met by hopping next pointers from k0, k0 excluded; the
\* walk stops at a label that is not a key
RECURSIVE ClockwiseFrom(_, _, _)
ClockwiseFrom(map, k0, cnt) ==
    IF cnt = 0 \/ k0 \notin DOMAIN map THEN << >>
    ELSE <<map[k0].next>> \o ClockwiseFrom(map, map[k0].next, cnt - 1)

SeqRange(q) == {q[i] : i \in 1..Len(q)}

MaxOf(S) == CHOOSE m \in S : \A k \in S : k <= m

\* C16: at the end of new, insert_after, remove_after_point,
\* advance_clockwise and crab_step, for any arguments and any sequence of
\* calls, point is a key of nodes and the next pointers from any key visit
\* every key exactly once, with the prev pointers traversing the same
\* cycle in reverse.
C16_RingInvariant == RingExists => RingInvariant(theRing)

\* The invariant is kept by every call except an insert_after whose
\* new_node is already a key.
RingInvariantKeptUnlessDuplicate ==
    [][(RingInvariant(theRing) /\ RingExists'
          /\ ~(ringOp'[1] = "insert_after" /\ ringOp'[3] \in DOMAIN nodes))
          => RingInvariant(theRing')]_vars

\* what C17 says of a remove_after_point(k) step
RemoveAfterPointAsClaimed(k) ==
    IF Cardinality(DOMAIN nodes) <= k
    THEN /\ ringRet'.kind = "Err"
         /\ nodes' = nodes
         /\ point' = point
    ELSE LET r == ClockwiseFrom(nodes, point, k)
             successor == ClockwiseFrom(nodes, point, k + 1)
         IN /\ ringRet' = Ok(r)
            /\ point' = point
            /\ DOMAIN nodes' = (DOMAIN nodes) \ SeqRange(r)
            /\ Cardinality(DOMAIN nodes') = Cardinality(DOMAIN nodes) - k
            /\ RingInvariant(theRing')
            /\ Len(successor) = k + 1
            /\ nodes'[point].next = successor[k + 1]
            /\ nodes'[successor[k + 1]].prev = point
            /\ \A x \in (DOMAIN nodes') \ {point} :
                   nodes'[x].next = nodes[x].next

\* C17: remove_after_point(n) on a ring of size <= n returns Err and
\* leaves nodes and point unmodified; otherwise it removes exactly the n
\* entries clockwise after point, returns them in clockwise order, leaves
\* point unchanged, decreases len by n and relinks point.next and
\* successor.prev so that the remaining nodes form one cycle.
C17_RemoveAfterPoint ==
    [][ringOp'[1] = "remove_after_point"
          => RemoveAfterPointAsClaimed(ringOp'[2])]_vars

\* C17 holds of every call made on a ring that satisfies the invariant.
RemoveAfterPointOnSoundRing ==
    [][(ringOp'[1] = "remove_after_point" /\ RingInvariant(theRing))
          => RemoveAfterPointAsClaimed(ringOp'[2])]_vars

\* C18: insert_after(existing_node, new_node) with existing_node not in the
\* ring returns Err and leaves nodes and point exactly as before the call,
\* so that any later insert behaves as if the failed call had not happened.
C18_FailedInsertChangesNothing ==
    [][(ringOp'[1] = "insert_after" /\ ringOp'[2] \notin DOMAIN nodes)
          => /\ ringRet' = Err(<<"Node not found in ring", ringOp'[2]>>)
             /\ nodes' = nodes
             /\ point' = point
             /\ \A e \in Labels, c \in Labels :
                    insert_after(theRing', e, c) = insert_after(theRing, e, c)]_vars

\* a failed insert on a ring of two or more labels, as in insert_after_test
C18_Witness ==
    /\ ringOp[1] = "insert_after"
    /\ ringRet.kind = "Err"
    /\ ringOp[2] \notin DOMAIN nodes
    /\ Cardinality(DOMAIN nodes) >= 2
    /\ RingInvariant(theRing)

\* what C19 says of a crab_step on a ring of at least 4 labels
CrabStepAsClaimed ==
    LET size == Cardinality(DOMAIN nodes)
        lifted == ClockwiseFrom(nodes, point, 3)
        remaining == (DOMAIN nodes) \ SeqRange(lifted)
        below == {l \in remaining : l < point}
        destination == IF below # {} THEN MaxOf(below) ELSE MaxOf(remaining)
        before == <<point>> \o ClockwiseFrom(nodes, point, size - 1)
        kept == SelectSeq(before, LAMBDA l : l \in remaining)
        RECURSIVE Splice(_)
        Splice(q) ==
            IF q = << >> THEN << >>
            ELSE IF Head(q) = destination
                 THEN <<Head(q)>> \o lifted \o Splice(Tail(q))
                 ELSE <<Head(q)>> \o Splice(Tail(q))
    IN /\ ringRet' = Ok(<< >>)
       /\ DOMAIN nodes' = DOMAIN nodes
       /\ Len(lifted) = 3
       /\ remaining # {}
       /\ ClockwiseFrom(nodes', destination, 3) = lifted
       /\ <<point>> \o ClockwiseFrom(nodes', point, size)
             = Splice(kept) \o <<point>>
       /\ point \in DOMAIN nodes'
       /\ point' = nodes'[point].next

\* C19: crab_step on a ring with at least 4 labels returns Ok and keeps the
\* label set: it lifts the three labels clockwise of point, takes as
\* destination the largest remaining label below point (the largest
\* remaining label when none is lower), re-inserts the three labels right
\* after the destination in their original order and moves point to its
\* new clockwise neighbour.
C19_CrabStep ==
    [][(ringOp' = <<"crab_step">> /\ Cardinality(DOMAIN nodes) >= 4)
          => CrabStepAsClaimed]_vars

\* C19 holds of every crab_step made on a ring that satisfies the invariant.
CrabStepOnSoundRing ==
    [][(ringOp' = <<"crab_step">> /\ Cardinality(DOMAIN nodes) >= 4
          /\ RingInvariant(theRing))
          => CrabStepAsClaimed]_vars

\* The example of crab_step_test: 3 8 9 1 2 5 4 6 7 with point 3 becomes
\* point 2 followed by 8 9 1 5 4 6 7 3.
CrabStepExample ==
    LET r == crab_step(ring_new(<<3, 8, 9, 1, 2, 5, 4, 6, 7>>).val)
    IN /\ r.ret = Ok(<< >>)
       /\ r.self.point = 2
       /\ r.self.nodes[2] = RingNode(3, 8)
       /\ ClockwiseFrom(r.self.nodes, 2, 9) = <<8, 9, 1, 5, 4, 6, 7, 3, 2>>

\* ----------------------------------------------- PuzzleBuilder properties
\* C20: adding any line to an Error builder yields Error with the same
\* message, and adding any line to a Closed builder yields
\* Error("Cannot add line to closed puzzle."); once a builder is Error it
\* keeps its first message through every later add.
C20_TerminalStatesAbsorb ==
    [][pbOp'[1] = "add"
          => /\ builder.state = "Error" => builder' = builder
             /\ builder.state = "Closed"
                    => builder' = err(<<"Cannot add line to closed puzzle.">>)]_vars

\* a boundary line was added to the Error builder that a Closed builder
\* had turned into, and the message is still the first one
C20_Witness ==
    /\ pbOp[1] = "add"
    /\ pbOp[2] = "Error"
    /\ pbOp[3] # None
    /\ builder = err(<<"Cannot add line to closed puzzle.">>)

\* what build returned, for each state of the builder it was called on
BuildAsClaimed ==
    pbOp = <<"build">>
        => /\ pbRet.kind = "Ok" => builder.state = "Closed"
           /\ builder.state = "Empty" => pbRet = Err(<<"Empty builder">>)
           /\ builder.state = "Open" => pbRet = Err(<<"Incomplete builder">>)
           /\ builder.state = "Error" => pbRet = Err(builder.msg)

\* an add step that ends in Closed started from an Open builder with a
\* door and a player, and PAT_OUTER captured as many dashes as its width
ClosedOnlyByClosing ==
    (pbOp'[1] = "add" /\ builder'.state = "Closed")
        => /\ builder.state = "Open"
           /\ builder.door # None
           /\ builder.player # None
           /\ pbOp'[3] = Some(builder.width)
           /\ builder' = Closed(builder.width, builder.height,
                                builder.door.val, builder.player.val,
                                builder.walls)

\* an add step that gives a boundary line to an Open builder
BoundaryOnOpen ==
    /\ pbOp'[1] = "add"
    /\ builder.state = "Open"
    /\ pbOp'[3] # None

NoDoorAsClaimed ==
    (BoundaryOnOpen /\ builder.door = None)
        => builder' = err(<<"No door in puzzle.">>)

\* C21, as stated: build returns Ok only for a Closed builder (Empty ->
\* "Empty builder", Open -> "Incomplete builder", Error -> its message);
\* Closed is entered only by adding a boundary line whose dash count is the
\* builder's width to an Open builder that has a door and a player; a
\* boundary line on an Open builder without a door yields
\* Error("No door in puzzle.") and on one without a player
\* Error("No player in puzzle.").
C21_BuildAndClose ==
    /\ []BuildAsClaimed
    /\ [][/\ ClosedOnlyByClosing
          /\ NoDoorAsClaimed
          /\ (BoundaryOnOpen /\ builder.player = None)
                 => builder' = err(<<"No player in puzzle.">>)]_vars

\* C21, amended: as stated, except that the boundary line yields
\* Error("No player in puzzle.") on an Open builder that has a door and no
\* player; with neither a door nor a player the missing door is reported.
C21_BuildAndCloseAmended ==
    /\ []BuildAsClaimed
    /\ [][/\ ClosedOnlyByClosing
          /\ NoDoorAsClaimed
          /\ (BoundaryOnOpen /\ builder.door # None /\ builder.player = None)
                 => builder' = err(<<"No player in puzzle.">>)]_vars

\* a boundary line was added to an Open builder with a door and no player
C21_Witness ==
    /\ pbOp[1] = "add"
    /\ pbOp[2] = "Open"
    /\ pbOp[3] # None
    /\ builder = err(<<"No player in puzzle.">>)

\* the positions an Open or Closed builder has recorded
DoorOf(b) ==
    IF b.state = "Closed" THEN {b.door}
    ELSE IF b.door = None THEN {} ELSE {b.door.val}

PlayerOf(b) ==
    IF b.state = "Closed" THEN {b.player}
    ELSE IF b.player = None THEN {} ELSE {b.player.val}

Occurrences(row, c) == Cardinality({i \in 1..Len(row) : row[i] = c})

\* what adding the interior line of the given row to the Open builder b
\* gives, the row being of b's width: a Duplicate error when the row brings
\* a second D or a second o, the builder with one more row otherwise
RowAccepted(b, row) ==
    LET l == <<"|">> \o row \o <<"|">>
        doors == Occurrences(row, "D") + Cardinality(DoorOf(b))
        players == Occurrences(row, "o") + Cardinality(PlayerOf(b))
        r == add(b, l)
    IN /\ (doors >= 2 /\ players <= 1)
              => r = err(<<"Duplicate door detected in row", b.height>>)
       /\ (players >= 2 /\ doors <= 1)
              => r = err(<<"Duplicate player detected in row", b.height>>)
       /\ (doors >= 2 /\ players >= 2)
              => r \in {err(<<"Duplicate door detected in row", b.height>>),
                        err(<<"Duplicate player detected in row", b.height>>)}
       /\ (doors <= 1 /\ players <= 1)
              => /\ r.state = "Open"
                 /\ r.height = b.height + 1
                 /\ Cardinality(DoorOf(r)) = doors
                 /\ Cardinality(PlayerOf(r)) = players

\* C22: in every Open or Closed builder reached from Empty by add, the door
\* and the player (when present) are not in walls and every recorded
\* position has x < width and y < height; at most one door and one player
\* are accepted: a row with a second D or a second o yields a Duplicate
\* door or Duplicate player Error.
C22_PositionsSound ==
    /\ builder.state \in {"Open", "Closed"}
           => /\ DoorOf(builder) \cap builder.walls = {}
              /\ PlayerOf(builder) \cap builder.walls = {}
              /\ \A p \in DoorOf(builder) \cup PlayerOf(builder)
                            \cup builder.walls :
                     p.x < builder.width /\ p.y < builder.height
    /\ builder.state = "Open"
           => \A row \in [1..builder.width -> {" ", "D", "o", "X"}] :
                  RowAccepted(builder, row)

\* a Closed builder with its door right of a wall and its player below it
C22_Witness ==
    /\ builder.state = "Closed"
    /\ builder.walls # {}
    /\ \E w \in builder.walls :
           /\ builder.door = XYnew(w.x + 1, w.y)
           /\ builder.player = XYnew(w.x, w.y + 1)

\* a second D was refused
C22_DuplicateRefused ==
    /\ pbOp[1] = "add"
    /\ pbOp[2] = "Open"
    /\ builder.state = "Error"
    /\ builder.msg[1] = "Duplicate door detected in row"
    /\ builder.msg[2] = 1

\* ------------------------------------------------------ escape properties
Directions == {"N", "S", "E", "W"}

\* the cell one move away; y grows to the south and x to the east
Moved(c, d) ==
    IF d = "N" THEN [x |-> c.x, y |-> c.y - 1]
    ELSE IF d = "S" THEN [x |-> c.x, y |-> c.y + 1]
    ELSE IF d = "E" THEN [x |-> c.x + 1, y |-> c.y]
    ELSE [x |-> c.x - 1, y |-> c.y]

\* the cells of the grid that hold no wall
OpenSquares(p) == Cells(p.width, p.height) \ p.walls

\* where the moves of path lead from c: {the last cell} when every move
\* ends in an open square of the grid, {} otherwise
RECURSIVE Walk(_, _, _)
Walk(p, c, path) ==
    IF path = << >> THEN {c}
    ELSE IF Moved(c, Head(path)) \in OpenSquares(p)
         THEN Walk(p, Moved(c, Head(path)), Tail(path))
         ELSE {}

\* the number of moves of a shortest walk from the frontier to the door,
\* the frontier being the cells at d moves from the player; None when no
\* walk reaches the door
RECURSIVE DoorDistance(_, _, _, _)
DoorDistance(p, frontier, seen, d) ==
    IF p.door \in frontier THEN Some(d)
    ELSE LET reached == {Moved(c, dir) : c \in frontier, dir \in Directions}
             further == (reached \cap OpenSquares(p)) \ seen
         IN IF further = {} THEN None
            ELSE DoorDistance(p, further, seen \cup further, d + 1)

\* what escape returned is what C23 says of the puzzle
EscapeAsClaimed ==
    escRet # None
        => LET d == DoorDistance(puzzle, {puzzle.player}, {puzzle.player}, 0)
           IN IF d = None THEN escRet = Err(<<"IllPosedPuzzle">>)
              ELSE /\ escRet.kind = "Ok"
                   /\ \A i \in 1..Len(escRet.val) : escRet.val[i] \in Directions
                   /\ Walk(puzzle, puzzle.player, escRet.val) = {puzzle.door}
                   /\ Len(escRet.val) = d.val

\* C23: escape always terminates; when the door can be reached it returns
\* Ok(path) with a string over N, S, E, W whose moves from the player's
\* cell stay inside the grid, enter no wall and end on the door, no shorter
\* such string existing; it returns Err(IllPosedPuzzle) exactly when the
\* door cannot be reached.
C23_EscapeShortestPath ==
    /\ <>(escRet # None)
    /\ []EscapeAsClaimed

\* escape returned a path that goes round a wall: it is longer than the
\* distance between player and door on an empty grid
C23_Witness ==
    /\ puzzle # None
    /\ escRet.kind = "Ok"
    /\ LET dx == IF puzzle.door.x > puzzle.player.x
                 THEN puzzle.door.x - puzzle.player.x
                 ELSE puzzle.player.x - puzzle.door.x
           dy == IF puzzle.door.y > puzzle.player.y
                 THEN puzzle.door.y - puzzle.player.y
                 ELSE puzzle.player.y - puzzle.door.y
       IN Len(escRet.val) > dx + dy

\* escape found the door walled off
EscapeReportsIllPosed ==
    /\ puzzle # None
    /\ escRet = Err(<<"IllPosedPuzzle">>)
    /\ puzzle.walls # {}

\* build returns only puzzles on which escape is run above
BuildGivesWellFormed == pbRet.kind = "Ok" => WellFormed(pbRet.val)

\* ----------------------------------------------------- Display property
\* the number a sequence of decimal digits denotes
RECURSIVE DigitsValue(_)
DigitsValue(digits) ==
    IF digits = << >> THEN 0
    ELSE LET last == digits[Len(digits)]
             v == CHOOSE d \in 0..9 :
                      <<"0", "1", "2", "3", "4", "5", "6", "7", "8", "9">>[d + 1] = last
         IN 10 * DigitsValue(SubSeq(digits, 1, Len(digits) - 1)) + v

\* C24: Display writes "[n = N] " followed by exactly N characters, where
\* character i is '1' if get(i) == Some(true) and '0' otherwise; no padding
\* bit is rendered, and for capacity 0 the bit string is empty.
C24_DisplayAgreesWithGet ==
    op = "fmt"
        => /\ ret.kind = "String"
           /\ LET out == ret.val
                  close == CHOOSE k \in 1..Len(out) :
                               /\ out[k] = "]"
                               /\ \A j \in 1..(k - 1) : out[j] # "]"
                  digits == SubSeq(out, 6, close - 1)
              IN /\ \E k \in 1..Len(out) : out[k] = "]"
                 /\ SubSeq(out, 1, 5) = <<"[", "n", " ", "=", " ">>
                 /\ digits # << >>
                 /\ \A i \in 1..Len(digits) :
                        digits[i] \in {"0", "1", "2", "3", "4", "5", "6", "7", "8", "9"}
                 /\ Len(digits) > 1 => digits[1] # "0"
                 /\ DigitsValue(digits) = n
                 /\ out[close + 1] = " "
                 /\ Len(out) = close + 1 + n
                 /\ \A i \in 0..(n - 1) :
                        out[close + 2 + i]
                            = IF get(this, i) = Some(TRUE) THEN "1" ELSE "0"

\* a bitset of two bytes with padding bits, a member in the second byte
\* and a non-member, rendered
C24_Witness ==
    /\ op = "fmt"
    /\ n >= 10
    /\ n % 8 # 0
    /\ \E i \in Members : i >= 8
    /\ Members # 0..(n - 1)

====
